---- MODULE Spec2Model ----
\* Blogicum (blog/views.py, blog/urls.py): the post store, the comment store,
\* the list/detail views that filter it per viewer, and the create / edit /
\* delete handlers with their author checks.
EXTENDS Integers, Sequences, FiniteSets, TLC

\* ---------------------------------------------------------------- bounds
MaxPosts == 2
MaxComments == 1
MaxListed == 25
MaxBackdated == 2

\* ------------------------------------------------------- program constants
MAX_QUANTITY_POST == 10

\* ------------------------------------------------------------ value sets
Users == {"u1", "u2"}
Anonymous == "AnonymousUser"
Viewers == Users \cup {Anonymous}
Slugs == {"c1", "c2"}
NoCategory == "null"
Times == {1, 2}
Texts == {"a", "b"}
PostIds == 1..MaxPosts
CommentIds == 1..MaxComments

VARIABLES
    posts,          \* Post table: id -> [author, is_published, category, pub_date]
    comments,       \* Comment table: id -> [author, post, text]
    categories,     \* Category table: slug -> is_published
    nextPostId,     \* next primary key of Post
    nextCommentId,  \* next primary key of Comment
    now,            \* timezone.now()
    tieOrder,       \* the store's order among rows with equal pub_date:
                    \* by primary key, ascending or descending; order_by
                    \* names no second key
    last            \* the last request and its response

vars == <<posts, comments, categories, nextPostId, nextCommentId, now, tieOrder, last>>
store == <<posts, comments, categories, nextPostId, nextCommentId>>

\* ------------------------------------------------------------ responses
Http404 == [status |-> 404, target |-> <<>>]
Rendered == [status |-> 200, target |-> <<>>]
Redirect(name, arg) == [status |-> 302, target |-> <<name, arg>>]
\* LoginRequiredMixin.handle_no_permission for an unauthenticated request
RedirectToLogin == [status |-> 302, target |-> <<"login">>]
\* dispatch hands the request on to the view (super().dispatch)
Super == [status |-> 0, target |-> <<>>]
\* a list view's result: the rows of its queryset, or Http404
Listing(rows) == [status |-> 200, rows |-> rows]
ListingHttp404 == [status |-> 404, rows |-> <<>>]
\* a detail view's result: the object found, or Http404
Found(id) == [status |-> 200, target |-> <<"object", id>>]

is_authenticated(user) == user \in Users

\* ------------------------------------------------------------ querysets
\* the filter without its category condition
PublishedFilter_AnyCategory(post, Cat, t) ==
    /\ post.is_published
    /\ post.pub_date <= t

\* the filter with pub_date__lt in place of pub_date__lte
PublishedFilter_StrictDate(post, Cat, t) ==
    /\ post.is_published
    /\ post.category # NoCategory /\ Cat[post.category]
    /\ post.pub_date < t

\* filter(is_published=True, category__is_published=True, pub_date__lte=now):
\* category__is_published joins Category, so a row whose category is NULL
\* never matches.
PublishedFilter(post, Cat, t) ==
    /\ post.is_published
    /\ post.category # NoCategory /\ Cat[post.category]
    /\ post.pub_date <= t

\* Count("comments")
CommentCount(C, id) == Cardinality({c \in DOMAIN C : C[c].post = id})

\* order_by("-pub_date"); rows with equal pub_date come in the store's order
Before(P, tie, a, b) ==
    \/ P[a].pub_date > P[b].pub_date
    \/ /\ P[a].pub_date = P[b].pub_date
       /\ IF tie = "asc" THEN a < b ELSE a > b

InsertRow(P, tie, rows, x) ==
    LET k == Cardinality({i \in 1..Len(rows) : Before(P, tie, rows[i], x)})
    IN  SubSeq(rows, 1, k) \o <<x>> \o SubSeq(rows, k + 1, Len(rows))

RECURSIVE OrderByPubDateDesc(_, _, _)
OrderByPubDateDesc(P, tie, S) ==
    IF S = {} THEN <<>>
    ELSE LET x == CHOOSE y \in S : TRUE
         IN  InsertRow(P, tie, OrderByPubDateDesc(P, tie, S \ {x}), x)

\* annotate(comment_count=Count("comments"))
Annotate(C, ids) ==
    [i \in 1..Len(ids) |-> [id |-> ids[i], comment_count |-> CommentCount(C, ids[i])]]

Reverse(rows) == [i \in 1..Len(rows) |-> rows[Len(rows) + 1 - i]]

\* the queryset with order_by("pub_date") in place of order_by("-pub_date")
CommonListMixin_get_queryset_Ascending(P, C, Cat, t, tie) ==
    Annotate(C, Reverse(OrderByPubDateDesc(P, tie,
        {id \in DOMAIN P : PublishedFilter(P[id], Cat, t)})))

\* CommonListMixin.get_queryset
CommonListMixin_get_queryset(P, C, Cat, t, tie) ==
    Annotate(C, OrderByPubDateDesc(P, tie,
        {id \in DOMAIN P : PublishedFilter(P[id], Cat, t)}))

\* IndexListView
IndexListView(P, C, Cat, t, tie) ==
    Listing(CommonListMixin_get_queryset(P, C, Cat, t, tie))

\* CategoryPostsListView.get_queryset
CategoryPostsListView_get_queryset(P, C, Cat, t, tie, slug) ==
    IF ~(slug \in DOMAIN Cat /\ Cat[slug]) THEN ListingHttp404
    ELSE Listing(SelectSeq(CommonListMixin_get_queryset(P, C, Cat, t, tie),
                           LAMBDA row : P[row.id].category = slug))

\* the profile queryset without its branch for the profile's owner
ProfileListView_get_queryset_NoOwnBranch(P, C, Cat, t, tie, viewer, username) ==
    IF username \notin Users THEN ListingHttp404
    ELSE Listing(CommonListMixin_get_queryset(P, C, Cat, t, tie))

\* ProfileListView.get_queryset
ProfileListView_get_queryset(P, C, Cat, t, tie, viewer, username) ==
    IF username \notin Users THEN ListingHttp404
    ELSE IF viewer = username
         THEN Listing(Annotate(C, OrderByPubDateDesc(P, tie,
                  {id \in DOMAIN P : P[id].author = username})))
         ELSE Listing(CommonListMixin_get_queryset(P, C, Cat, t, tie))

\* get_post_data
get_post_data(P, Cat, t, id) ==
    IF id \in DOMAIN P /\ PublishedFilter(P[id], Cat, t) THEN Found(id) ELSE Http404

\* the detail lookup without Q(author=self.request.user)
PostDetailView_get_object_NoAuthor(P, Cat, t, viewer, id) ==
    get_post_data(P, Cat, t, id)

\* PostDetailView.get_object
PostDetailView_get_object(P, Cat, t, viewer, id) ==
    IF is_authenticated(viewer)
    THEN IF id \in DOMAIN P /\ (P[id].author = viewer \/ PublishedFilter(P[id], Cat, t))
         THEN Found(id) ELSE Http404
    ELSE get_post_data(P, Cat, t, id)

\* ------------------------------------------------------------ pagination
\* ListView with paginate_by = MAX_QUANTITY_POST: Paginator(queryset, 10,
\* orphans=0, allow_empty_first_page=True); an empty queryset has one empty page
NumPages(rows) ==
    LET hits == IF Len(rows) > 1 THEN Len(rows) ELSE 1
    IN  (hits + MAX_QUANTITY_POST - 1) \div MAX_QUANTITY_POST

Page(rows, k) ==
    LET bottom == (k - 1) * MAX_QUANTITY_POST
        top == IF bottom + MAX_QUANTITY_POST > Len(rows)
               THEN Len(rows) ELSE bottom + MAX_QUANTITY_POST
    IN  SubSeq(rows, bottom + 1, top)

\* ------------------------------------------------------------- requests
Request(op, actor, post_id, comment_id, response) ==
    [op |-> op, actor |-> actor, post_id |-> post_id, comment_id |-> comment_id,
     status |-> response.status, target |-> response.target]

NoRequest == Request("none", Anonymous, 0, 0, Rendered)

\* what PostForm submits (the author is never a form field): a post that is
\* publicly visible now, one scheduled for the latest time, an unpublished
\* one, one in the unpublished category, one without a category, and a
\* submission that fails validation
PostForms ==
    {[valid |-> TRUE, is_published |-> TRUE, category |-> "c1", pub_date |-> 1],
     [valid |-> TRUE, is_published |-> TRUE, category |-> "c1", pub_date |-> 2],
     [valid |-> TRUE, is_published |-> FALSE, category |-> "c1", pub_date |-> 1],
     [valid |-> TRUE, is_published |-> TRUE, category |-> "c2", pub_date |-> 1],
     [valid |-> TRUE, is_published |-> TRUE, category |-> NoCategory, pub_date |-> 1],
     [valid |-> FALSE, is_published |-> FALSE, category |-> NoCategory, pub_date |-> 1]}

\* what CommentForm submits
CommentForms ==
    {[valid |-> TRUE, text |-> t] : t \in Texts} \cup {[valid |-> FALSE, text |-> ""]}

NewPost(actor, form) ==
    [author |-> actor, is_published |-> form.is_published,
     category |-> form.category, pub_date |-> form.pub_date]

\* dispatch without the comparison of the author with request.user
PostVerifyMixin_dispatch_NoAuthorCheck(P, actor, post_id) ==
    IF post_id \notin DOMAIN P THEN Http404
    ELSE Super

\* PostVerifyMixin.dispatch
PostVerifyMixin_dispatch(P, actor, post_id) ==
    IF post_id \notin DOMAIN P THEN Http404
    ELSE IF P[post_id].author # actor THEN Redirect("post_detail", post_id)
    ELSE Super

\* CommentMixin.dispatch
CommentMixin_dispatch(C, actor, post_id, comment_id) ==
    IF comment_id \notin DOMAIN C THEN Http404
    ELSE IF C[comment_id].author # actor THEN Redirect("post_detail", post_id)
    ELSE Super

\* PostUpdateView / PostDeleteView: the response to a request
PostMutate_response(P, actor, post_id, valid, success) ==
    LET verdict == PostVerifyMixin_dispatch(P, actor, post_id)
    IN  IF verdict # Super THEN verdict
        ELSE IF ~valid THEN Rendered
        ELSE success

\* CommentCreateView without LoginRequiredMixin
CommentCreateView_response_NoLogin(P, actor, post_id, valid) ==
    IF ~valid THEN Rendered
    ELSE IF post_id \notin DOMAIN P THEN Http404
    ELSE Redirect("post_detail", post_id)

\* CommentCreateView (LoginRequiredMixin, then form_valid): the response
CommentCreateView_response(P, actor, post_id, valid) ==
    IF ~is_authenticated(actor) THEN RedirectToLogin
    ELSE IF ~valid THEN Rendered
    ELSE IF post_id \notin DOMAIN P THEN Http404
    ELSE Redirect("post_detail", post_id)

Without(f, k) == [x \in DOMAIN f \ {k} |-> f[x]]

\* -------------------------------------------------------------- handlers
\* PostCreateView
PostCreateView(actor, form) ==
    LET response == IF ~is_authenticated(actor) THEN RedirectToLogin
                    ELSE IF ~form.valid THEN Rendered
                    ELSE Redirect("profile", actor)
    IN  /\ last' = Request("create_post", actor, 0, 0, response)
        /\ IF is_authenticated(actor) /\ form.valid
           THEN /\ posts' = posts @@ (nextPostId :> NewPost(actor, form))
                /\ nextPostId' = nextPostId + 1
           ELSE UNCHANGED <<posts, nextPostId>>
        /\ UNCHANGED <<comments, categories, nextCommentId, now, tieOrder>>

\* PostUpdateView
PostUpdateView(actor, post_id, form) ==
    LET response == PostMutate_response(posts, actor, post_id, form.valid,
                                        Redirect("get_absolute_url", post_id))
    IN  /\ last' = Request("edit_post", actor, post_id, 0, response)
        /\ IF PostVerifyMixin_dispatch(posts, actor, post_id) = Super /\ form.valid
           THEN posts' = [posts EXCEPT ![post_id] = NewPost(@.author, form)]
           ELSE UNCHANGED posts
        /\ UNCHANGED <<comments, categories, nextPostId, nextCommentId, now, tieOrder>>

\* PostDeleteView. form_class is PostForm (PostVerifyMixin), which a DeleteView
\* that validates its form checks before deleting: `valid` is that outcome.
\* Comment.post is required, so the post's comments go with the post.
PostDeleteView(actor, post_id, valid) ==
    LET response == PostMutate_response(posts, actor, post_id, valid,
                                        Redirect("profile", actor))
    IN  /\ last' = Request("delete_post", actor, post_id, 0, response)
        /\ IF PostVerifyMixin_dispatch(posts, actor, post_id) = Super /\ valid
           THEN /\ posts' = Without(posts, post_id)
                /\ comments' = [c \in {x \in DOMAIN comments : comments[x].post # post_id}
                                  |-> comments[c]]
           ELSE UNCHANGED <<posts, comments>>
        /\ UNCHANGED <<categories, nextPostId, nextCommentId, now, tieOrder>>

\* CommentCreateView
CommentCreateView(actor, post_id, form) ==
    LET response == CommentCreateView_response(posts, actor, post_id, form.valid)
    IN  /\ last' = Request("add_comment", actor, post_id, 0, response)
        /\ IF response = Redirect("post_detail", post_id)
           THEN /\ comments' = comments @@
                       (nextCommentId :> [author |-> actor, post |-> post_id,
                                          text |-> form.text])
                /\ nextCommentId' = nextCommentId + 1
           ELSE UNCHANGED <<comments, nextCommentId>>
        /\ UNCHANGED <<posts, categories, nextPostId, now, tieOrder>>

\* CommentUpdateView
CommentUpdateView(actor, post_id, comment_id, form) ==
    LET verdict == CommentMixin_dispatch(comments, actor, post_id, comment_id)
        response == IF verdict # Super THEN verdict
                    ELSE IF ~form.valid THEN Rendered
                    ELSE Redirect("post_detail", post_id)
    IN  /\ last' = Request("edit_comment", actor, post_id, comment_id, response)
        /\ IF verdict = Super /\ form.valid
           THEN comments' = [comments EXCEPT ![comment_id].text = form.text]
           ELSE UNCHANGED comments
        /\ UNCHANGED <<posts, categories, nextPostId, nextCommentId, now, tieOrder>>

\* CommentDeleteView
CommentDeleteView(actor, post_id, comment_id) ==
    LET verdict == CommentMixin_dispatch(comments, actor, post_id, comment_id)
        response == IF verdict # Super THEN verdict
                    ELSE Redirect("post_detail", post_id)
    IN  /\ last' = Request("delete_comment", actor, post_id, comment_id, response)
        /\ IF verdict = Super
           THEN comments' = Without(comments, comment_id)
           ELSE UNCHANGED comments
        /\ UNCHANGED <<posts, categories, nextPostId, nextCommentId, now, tieOrder>>

\* timezone.now() advances
Tick ==
    /\ now + 1 \in Times
    /\ now' = now + 1
    /\ UNCHANGED <<store, tieOrder, last>>

\* ------------------------------------------------------- specification
\* an empty store with a published category c1 and an unpublished one c2
Init ==
    /\ posts = <<>>
    /\ comments = <<>>
    /\ categories = [s \in Slugs |-> s = "c1"]
    /\ nextPostId = 1
    /\ nextCommentId = 1
    /\ now = 1
    /\ tieOrder = "asc"
    /\ last = NoRequest

CreatePost ==
    \E actor \in Viewers, form \in PostForms :
        /\ nextPostId <= MaxPosts
        /\ PostCreateView(actor, form)

EditPost ==
    \E actor \in Viewers, post_id \in PostIds, form \in PostForms :
        PostUpdateView(actor, post_id, form)

DeletePost ==
    \E actor \in Viewers, post_id \in PostIds, valid \in BOOLEAN :
        PostDeleteView(actor, post_id, valid)

AddComment ==
    \E actor \in Viewers, post_id \in PostIds, form \in CommentForms :
        /\ nextCommentId <= MaxComments
        /\ CommentCreateView(actor, post_id, form)

EditComment ==
    \E actor \in Viewers, post_id \in PostIds, comment_id \in CommentIds,
       form \in CommentForms :
        CommentUpdateView(actor, post_id, comment_id, form)

DeleteComment ==
    \E actor \in Viewers, post_id \in PostIds, comment_id \in CommentIds :
        CommentDeleteView(actor, post_id, comment_id)

Next ==
    \/ CreatePost
    \/ EditPost
    \/ DeletePost
    \/ AddComment
    \/ EditComment
    \/ DeleteComment
    \/ Tick

Spec == Init /\ [][Next]_vars

\* The index of a store that holds many posts: every post is published in
\* the published category; all carry the latest pub_date but at most
\* MaxBackdated of them, which are backdated.
InitPage ==
    /\ posts = <<>>
    /\ comments = <<>>
    /\ categories = [s \in Slugs |-> s = "c1"]
    /\ nextPostId = 1
    /\ nextCommentId = 1
    /\ now = 2
    /\ tieOrder \in {"asc", "desc"}
    /\ last = NoRequest

Backdated == {id \in DOMAIN posts : posts[id].pub_date < now}

CreateListedPost ==
    \E form \in {f \in PostForms : f.valid /\ f.is_published /\ f.category = "c1"} :
        /\ nextPostId <= MaxListed
        /\ form.pub_date < now => Cardinality(Backdated) < MaxBackdated
        /\ PostCreateView("u1", form)

NextPage == CreateListedPost

SpecPage == InitPage /\ [][NextPage]_vars

TypeOK ==
    /\ DOMAIN posts \subseteq 1..(nextPostId - 1)
    /\ DOMAIN comments \subseteq 1..(nextCommentId - 1)
    /\ \A c \in DOMAIN comments : comments[c].post \in DOMAIN posts
    /\ now \in Times

\* ================================================================ claims
\* the views on the current store
Index == IndexListView(posts, comments, categories, now, tieOrder)
CategoryList(slug) ==
    CategoryPostsListView_get_queryset(posts, comments, categories, now, tieOrder, slug)
ProfileList(viewer, username) ==
    ProfileListView_get_queryset(posts, comments, categories, now, tieOrder,
                                 viewer, username)
Detail(viewer, id) == PostDetailView_get_object(posts, categories, now, viewer, id)

RowIds(rows) == {rows[i].id : i \in 1..Len(rows)}

\* the visibility predicate as the specification words it: a post without a
\* category counts as being in a published category
IsPubliclyVisible(post) ==
    /\ post.is_published
    /\ post.pub_date <= now
    /\ (post.category = NoCategory \/ categories[post.category])

\* the visibility predicate with the category required
IsVisibleInPublishedCategory(post) ==
    /\ post.is_published
    /\ post.pub_date <= now
    /\ post.category # NoCategory
    /\ categories[post.category]

\* every post some public listing shows to the viewer: the index, the
\* category pages, the profile pages of the other users
PublicListingIds(viewer) ==
    RowIds(Index.rows)
    \cup UNION {RowIds(CategoryList(slug).rows) : slug \in Slugs}
    \cup UNION {RowIds(ProfileList(viewer, u).rows) : u \in Users \ {viewer}}

\* C1: for every viewer, a post shown by the index, a category listing or
\* another user's profile listing is published, not dated in the future, and
\* its category is null or published; the viewer being the author changes
\* nothing.
C1_PublicListingsOnlyVisible ==
    \A viewer \in Viewers : \A id \in PublicListingIds(viewer) :
        id \in DOMAIN posts /\ IsPubliclyVisible(posts[id])

\* C1 witness: an author's published post in the unpublished category is in
\* none of the author's public listings while another post is listed.
C1_Witness ==
    \E id \in DOMAIN posts :
        /\ posts[id].is_published /\ posts[id].pub_date <= now
        /\ posts[id].category # NoCategory /\ ~categories[posts[id].category]
        /\ id \notin PublicListingIds(posts[id].author)
        /\ PublicListingIds(posts[id].author) # {}

C4_Original ==
    \A viewer \in Viewers, u \in Users :
        viewer # u =>
            RowIds(ProfileList(viewer, u).rows) =
                {id \in DOMAIN posts :
                    posts[id].author = u /\ IsPubliclyVisible(posts[id])}

\* C5: a user's own profile page lists exactly the posts this user wrote,
\* each once, whatever their visibility, and each row carries the number of
\* comments on its post.
C5_OwnProfileListsAllOwnPosts ==
    \A u \in Users :
        LET rows == ProfileList(u, u).rows
        IN  /\ RowIds(rows) = {id \in DOMAIN posts : posts[id].author = u}
            /\ Len(rows) = Cardinality(RowIds(rows))
            /\ \A i \in 1..Len(rows) :
                  rows[i].comment_count =
                      Cardinality({c \in DOMAIN comments : comments[c].post = rows[i].id})

\* C5 witness: a user's own profile shows a post of theirs that no public
\* listing shows, with a comment counted, while another author has a post.
C5_Witness ==
    \E u \in Users :
        LET rows == ProfileList(u, u).rows
        IN  /\ \E i \in 1..Len(rows) :
                  /\ ~IsPubliclyVisible(posts[rows[i].id])
                  /\ rows[i].comment_count >= 1
            /\ \E id \in DOMAIN posts : posts[id].author # u

PostOps == {"edit_post", "delete_post"}
CommentOps == {"edit_comment", "delete_comment"}

PostChanged(id) == id \notin DOMAIN posts' \/ posts'[id] # posts[id]
CommentChanged(c) == c \notin DOMAIN comments' \/ comments'[c] # comments[c]

C7_Original ==
    /\ (/\ last.op \in PostOps
        /\ last.post_id \in DOMAIN posts
        /\ posts[last.post_id].author # last.actor)
       => (last.status = 302 /\ last.target = <<"post_detail", last.post_id>>)
    /\ (/\ last.op \in CommentOps
        /\ last.comment_id \in DOMAIN comments
        /\ comments[last.comment_id].author # last.actor)
       => (/\ last.status = 302
           /\ last.target = <<"post_detail", comments[last.comment_id].post>>)

\* the responses of the handlers addressed by a post id, on a post table P
PostIdResponses(P, viewer, id) ==
    {PostDetailView_get_object(P, categories, now, viewer, id)}
    \cup {PostMutate_response(P, viewer, id, valid, Redirect("get_absolute_url", id)) :
             valid \in BOOLEAN}
    \cup {PostMutate_response(P, viewer, id, valid, Redirect("profile", viewer)) :
             valid \in BOOLEAN}
    \cup {CommentCreateView_response(P, viewer, id, valid) : valid \in BOOLEAN}

\* C8: for a post hidden from the viewer (not theirs, not publicly visible),
\* post detail, post edit, post delete and add comment answer as they do when
\* no post has that id: not-found.
C8_Original ==
    \A viewer \in Viewers, id \in DOMAIN posts :
        (posts[id].author # viewer /\ ~IsPubliclyVisible(posts[id])) =>
            /\ PostIdResponses(posts, viewer, id) = PostIdResponses(Without(posts, id), viewer, id)
            /\ PostIdResponses(posts, viewer, id) = {Http404}

\* ---- pagination of the index
Ceil(n) == (n + MAX_QUANTITY_POST - 1) \div MAX_QUANTITY_POST

RECURSIVE ConcatPages(_, _)
ConcatPages(rows, k) ==
    IF k = 0 THEN <<>> ELSE ConcatPages(rows, k - 1) \o Page(rows, k)

\* every page but the last holds MAX_QUANTITY_POST rows, the last the rest,
\* and the pages in order make up the listing
PagesSplit(rows) ==
    LET n == NumPages(rows)
    IN  /\ \A k \in 1..(n - 1) : Len(Page(rows, k)) = MAX_QUANTITY_POST
        /\ Len(Page(rows, n)) = Len(rows) - MAX_QUANTITY_POST * (n - 1)
        /\ ConcatPages(rows, n) = rows

\* the listing is in descending pub_date order and holds each visible post
\* exactly once
ListedOnceDescending(rows) ==
    /\ \A i \in 1..Len(rows), j \in 1..Len(rows) :
          i < j => posts[rows[i].id].pub_date >= posts[rows[j].id].pub_date
    /\ Len(rows) = Cardinality(RowIds(rows))
    /\ RowIds(rows) = {id \in DOMAIN posts : PublishedFilter(posts[id], categories, now)}

C10_AddComment ==
    [][
        \A actor \in {last'.actor}, post_id \in {last'.post_id}, form \in CommentForms :
            CommentCreateView(actor, post_id, form) =>
                IF actor \in Users /\ form.valid /\ post_id \in DOMAIN posts
                THEN \E c \in DOMAIN comments' \ DOMAIN comments :
                        /\ DOMAIN comments' = DOMAIN comments \cup {c}
                        /\ comments'[c].author = actor
                        /\ comments'[c].post = post_id
                        /\ \A d \in DOMAIN comments : comments'[d] = comments[d]
                        /\ posts' = posts
                ELSE /\ comments' = comments
                     /\ posts' = posts
                     /\ (actor \in Users /\ form.valid) => last'.status = 404
    ]_vars

\* C10 witness: a user's comment stands on a post of another author that
\* this user cannot view, after their add-comment request.
C10_Witness ==
    /\ last.op = "add_comment"
    /\ last.status = 302
    /\ \E c \in DOMAIN comments :
          /\ comments[c].author = last.actor
          /\ comments[c].post = last.post_id
          /\ Detail(last.actor, last.post_id) = Http404

====
